---------------------------- MODULE Spec2Model ----------------------------
(***************************************************************************)
(* TC Premium Tile SKU Manager (src/app.py): the two spreadsheet files,    *)
(* the image tree, the entry form and the viewer, with one action per      *)
(* event handler.                                                          *)
(*                                                                         *)
(* Text is a sequence of one-character strings ("V", "0", " "); a few      *)
(* fixed pieces of text that the code only copies or compares as a whole   *)
(* are kept as one token ("images/", "_face", ".png", a brand name).       *)
(* NaN is the float pandas returns for a blank cell.                       *)
(***************************************************************************)
EXTENDS Integers, Sequences, FiniteSets, TLC

VARIABLES
    products_xlsx,   \* DATA_FILE: sequence of rows, every cell a text
    deleted_xlsx,    \* DELETED_DATA_FILE: sequence of rows
    dirs,            \* the folders images/<SKU> that exist
    files,           \* the files that exist below images/
    spcode_var,      \* EntryTab.spcode_var
    tree,            \* ViewerTab.tree: the SKUs listed, in order
    selection,       \* ViewerTab.tree.selection(): the selected SKU, or None
    menus,           \* the (sku, path) pairs bound to the preview's context menus
    dialogs,         \* the open AddNotesDialog windows, each with its caller's frame
    msg,             \* the last message box or status line shown
    clock,           \* number of rows written by save_product so far
    interleaved,     \* number of handlers run since a dialog has been open
    libs             \* which of the optional packages barcode, qrcode were imported

vars == <<products_xlsx, deleted_xlsx, dirs, files, spcode_var, tree, selection,
          menus, dialogs, msg, clock, interleaved, libs>>

store == <<products_xlsx, deleted_xlsx, dirs, files>>

---------------------------------------------------------------------------
(* Bounds of the model *)

\* successful saves in one behaviour
MaxSaves == 2
\* rows of the deleted file
MaxDeleted == 1
MaxDeletedRows == 2
\* face images listed for one product
MaxFaces == 1
MaxFaceIndex == 2
\* AddNotesDialog windows open at once
MaxDialogs == 1
\* notes appended to one product
MaxNotes == 1
\* handlers run while an AddNotesDialog is open
MaxInterleaved == 1
\* rows of a hand-made table (SpecAlloc)
MaxRows == 2

---------------------------------------------------------------------------
(* Python text primitives *)

Range(s) == {s[i] : i \in DOMAIN s}

DigitChars == <<"0", "1", "2", "3", "4", "5", "6", "7", "8", "9">>

DigitVal(c) == (CHOOSE i \in DOMAIN DigitChars : DigitChars[i] = c) - 1

\* str.isdigit(): non-empty and every character a digit
isdigit(s) == s # <<>> /\ \A i \in DOMAIN s : s[i] \in Range(DigitChars)

\* int(s) for a text of digits
RECURSIVE int(_)
int(s) == IF s = <<>> THEN 0
          ELSE 10 * int(SubSeq(s, 1, Len(s) - 1)) + DigitVal(s[Len(s)])

\* str(n) for n >= 0
RECURSIVE str(_)
str(n) == IF n < 10 THEN <<DigitChars[n + 1]>>
          ELSE str(n \div 10) \o <<DigitChars[(n % 10) + 1]>>

\* str.zfill(width) (no sign characters occur)
RECURSIVE zfill(_, _)
zfill(s, width) == IF Len(s) >= width THEN s ELSE zfill(<<"0">> \o s, width)

\* str.strip()
RECURSIVE lstrip(_)
lstrip(s) == IF s # <<>> /\ Head(s) = " " THEN lstrip(Tail(s)) ELSE s

RECURSIVE rstrip(_)
rstrip(s) == IF s # <<>> /\ s[Len(s)] = " "
             THEN rstrip(SubSeq(s, 1, Len(s) - 1)) ELSE s

strip(s) == rstrip(lstrip(s))

\* sep.join(list)
RECURSIVE join(_, _)
join(sep, list) == IF list = <<>> THEN <<>>
                   ELSE IF Len(list) = 1 THEN list[1]
                   ELSE list[1] \o sep \o join(sep, Tail(list))

\* s.split(c) for a one-character separator
RECURSIVE split(_, _)
split(s, c) ==
    IF \E i \in DOMAIN s : s[i] = c
    THEN LET i == CHOOSE k \in DOMAIN s : s[k] = c /\ \A j \in 1..(k - 1) : s[j] # c
         IN  <<SubSeq(s, 1, i - 1)>> \o split(SubSeq(s, i + 1, Len(s)), c)
    ELSE <<s>>

\* s[a:b] with 0 <= a <= b
slice(s, a, b) == SubSeq(s, a + 1, IF b > Len(s) THEN Len(s) ELSE b)

\* list.remove(x): the first occurrence
remove(list, x) ==
    LET i == CHOOSE k \in DOMAIN list : list[k] = x /\ \A j \in 1..(k - 1) : list[j] # x
    IN  SubSeq(list, 1, i - 1) \o SubSeq(list, i + 1, Len(list))

---------------------------------------------------------------------------
(* Config *)

MAX_DIM == 2000

BRAND_LIST == <<
    [code |-> <<"V", "E">>, name |-> <<"Vesta">>,   id |-> <<"0">>],
    [code |-> <<"O", "M">>, name |-> <<"One Max">>, id |-> <<"1">>],
    [code |-> <<"G", "A">>, name |-> <<"Granca">>,  id |-> <<"2">>],
    [code |-> <<"S", "A">>, name |-> <<"STA">>,     id |-> <<"3">>] >>

BRAND_CODES == {BRAND_LIST[i].code : i \in DOMAIN BRAND_LIST}

BrandOf(code) == BRAND_LIST[CHOOSE i \in DOMAIN BRAND_LIST : BRAND_LIST[i].code = code]

BRAND_CODE_TO_ID(code) == BrandOf(code).id

BRAND_CODE_TO_NAME(code) == BrandOf(code).name

SIZES == <<
    [label |-> <<"60x60">>,   code |-> <<"6", "0", "6", "0">>],
    [label |-> <<"80x80">>,   code |-> <<"8", "0", "8", "0">>],
    [label |-> <<"40x80">>,   code |-> <<"4", "0", "8", "0">>],
    [label |-> <<"60x120">>,  code |-> <<"6", "1", "2", "0">>],
    [label |-> <<"100x100">>, code |-> <<"1", "0", "1", "0">>],
    [label |-> <<"120x120">>, code |-> <<"1", "2", "1", "2">>],
    [label |-> <<"80x160">>,  code |-> <<"8", "1", "6", "0">>],
    [label |-> <<"100x200">>, code |-> <<"1", "0", "2", "0">>],
    [label |-> <<"120x240">>, code |-> <<"1", "2", "2", "4">>] >>

SIZE_LABELS == {SIZES[i].label : i \in DOMAIN SIZES}

SizeCodeOf(label) == SIZES[CHOOSE i \in DOMAIN SIZES : SIZES[i].label = label].code

SURFACE_OPTIONS == <<
    [label |-> <<"White Body">>,              code |-> <<"W">>],
    [label |-> <<"Microcid Glaze">>,          code |-> <<"M">>],
    [label |-> <<"Scratch-Resistant Glaze">>, code |-> <<"S">>],
    [label |-> <<"Crystal Glaze">>,           code |-> <<"C">>],
    [label |-> <<"Deep Color">>,              code |-> <<"D">>] >>

DEFAULT_COUNTRY_PREFIX == <<"8", "9", "3">>

DEFAULT_COMPANY_PREFIX == <<"1", "2", "3", "4", "5">>

COLUMNS == {"Timestamp", "BrandCode", "BrandName", "BrandID", "SizeLabel", "SizeCode",
            "SurfaceLabel", "SurfaceCode", "MattPolished", "SPCode", "SKU",
            "CommercialName", "Faces", "Batch", "CountryPrefix", "CompanyPrefix",
            "EAN13", "ImagePaths", "Notes"}

---------------------------------------------------------------------------
(* Load & save DataFrame *)

NaN == <<"NaN">>

None == <<"None">>

\* str(x) of a cell: the float nan prints as "nan"
pystr(x) == IF x = NaN THEN <<"n", "a", "n">> ELSE x

\* pd.read_excel(path, dtype=str): a blank cell is read as NaN
read_excel(sheet) ==
    [i \in DOMAIN sheet |->
        [c \in COLUMNS |-> IF sheet[i][c] = <<>> THEN NaN ELSE sheet[i][c]]]

\* a write that stores the SPCode cells as numbers, without their leading zeros
to_excel_numbers(df) ==
    [i \in DOMAIN df |->
        [c \in COLUMNS |-> IF df[i][c] = NaN THEN <<>>
                           ELSE IF c = "SPCode" /\ isdigit(df[i][c]) THEN str(int(df[i][c]))
                           ELSE df[i][c]]]

\* df.to_excel(path, index=False): NaN is written as a blank cell
to_excel(df) ==
    [i \in DOMAIN df |-> [c \in COLUMNS |-> IF df[i][c] = NaN THEN <<>> ELSE df[i][c]]]

\* the SPCode lambda of load_df, after fillna("")
load_spcode(x) ==
    LET v == IF x = NaN THEN <<>> ELSE x
    IN  IF isdigit(strip(pystr(v))) THEN zfill(pystr(v), 3) ELSE v

\* load_df reading the sheet given
load(sheet) ==
    LET df == read_excel(sheet)
    IN  [i \in DOMAIN df |-> [df[i] EXCEPT !.SPCode = load_spcode(@)]]

load_df == load(products_xlsx)

load_deleted_df == read_excel(deleted_xlsx)

---------------------------------------------------------------------------
(* EAN-13 utils, SKU builder *)

RECURSIVE SumAt(_, _)
\* sum of digits[k], digits[k+2], ... (0-based k)
SumAt(digits, k) == IF k + 1 > Len(digits) THEN 0
                    ELSE DigitVal(digits[k + 1]) + SumAt(digits, k + 2)

\* a check digit with the weights of the odd and even positions exchanged
ean13_checkdigit_swapped(base12) ==
    str((10 - ((SumAt(base12, 0) * 3 + SumAt(base12, 1)) % 10)) % 10)

ean13_checkdigit(base12) ==
    LET odd_sum  == SumAt(base12, 0)
        even_sum == SumAt(base12, 1) * 3
        total    == odd_sum + even_sum
        check    == (10 - (total % 10)) % 10
    IN  str(check)

\* str.rjust(width, "0")
RECURSIVE rjust0(_, _)
rjust0(s, width) == IF Len(s) >= width THEN s ELSE rjust0(<<"0">> \o s, width)

\* an EAN builder that does not pad a short base
build_ean13_unpadded(country_prefix, company_prefix, brand_id, spcode) ==
    LET base   == SelectSeq(country_prefix \o company_prefix \o brand_id
                            \o zfill(str(int(spcode)), 3),
                            LAMBDA ch : ch \in Range(DigitChars))
        base12 == IF Len(base) < 12 THEN base
                  ELSE SubSeq(base, Len(base) - 11, Len(base))
    IN  base12 \o ean13_checkdigit(base12)

\* an EAN builder that numbers the products by the count of saves so far
\* instead of their sequence
build_ean13_counted(country_prefix, company_prefix, brand_id, spcode) ==
    LET base   == SelectSeq(country_prefix \o company_prefix \o brand_id
                            \o zfill(str(clock), 3),
                            LAMBDA ch : ch \in Range(DigitChars))
        base12 == IF Len(base) < 12 THEN rjust0(base, 12)
                  ELSE SubSeq(base, Len(base) - 11, Len(base))
    IN  base12 \o ean13_checkdigit(base12)

build_ean13(country_prefix, company_prefix, brand_id, spcode) ==
    LET base   == SelectSeq(country_prefix \o company_prefix \o brand_id
                            \o zfill(str(int(spcode)), 3),
                            LAMBDA ch : ch \in Range(DigitChars))
        base12 == IF Len(base) < 12 THEN rjust0(base, 12)
                  ELSE SubSeq(base, Len(base) - 11, Len(base))
    IN  base12 \o ean13_checkdigit(base12)

\* a SKU without the finish digit
build_sku_unfinished(brand_code, size_code, matt_polished, spcode) ==
    brand_code \o size_code \o zfill(str(int(spcode)), 3)

build_sku(brand_code, size_code, matt_polished, spcode) ==
    brand_code \o size_code \o matt_polished \o zfill(str(int(spcode)), 3)

---------------------------------------------------------------------------
(* Auto SPCode generation *)

Max(S) == CHOOSE x \in S : \A y \in S : y <= x

\* the lambda applied to sel["SPCode"]
\* a cell value that does not strip the blanks around the digits
spcode_num_unstripped(x) == IF isdigit(pystr(x)) THEN int(pystr(x)) ELSE 0

spcode_num(x) == IF isdigit(strip(pystr(x))) THEN int(strip(pystr(x))) ELSE 0

\* an allocation that returns the largest number in use instead of the next one
next_spcode_in_used(df, brand_code, size_code) ==
    LET sel == SelectSeq(df, LAMBDA r : r.BrandCode = brand_code /\ r.SizeCode = size_code)
    IN  IF df = <<>> THEN <<"0", "0", "1">>
        ELSE IF sel = <<>> THEN <<"0", "0", "1">>
        ELSE zfill(str(Max({spcode_num(sel[i].SPCode) : i \in DOMAIN sel})), 3)

\* next_spcode_for once load_df has returned df
next_spcode_in(df, brand_code, size_code) ==
    LET sel == SelectSeq(df, LAMBDA r : r.BrandCode = brand_code /\ r.SizeCode = size_code)
    IN  IF df = <<>> THEN <<"0", "0", "1">>
        ELSE IF sel = <<>> THEN <<"0", "0", "1">>
        ELSE LET nums == {spcode_num(sel[i].SPCode) : i \in DOMAIN sel}
                 nxt  == Max(nums) + 1
             IN  zfill(str(IF nxt < 1 THEN 1 ELSE nxt), 3)

next_spcode_for(brand_code, size_code) == next_spcode_in(load_df, brand_code, size_code)

---------------------------------------------------------------------------
(* Images *)

\* os.path.join(IMAGES_ROOT, sku)
sku_dir_of(sku) == <<"images/">> \o sku

\* "{:02d}".format(n)
fmt02(n) == zfill(str(n), 2)

\* os.path.join(sku_dir, "{}_face{:02d}_{:02d}".format(spcode, face_idx, idx))
face_base(sku_dir, spcode, face_idx, idx) ==
    sku_dir \o <<"/">> \o spcode \o <<"_face">> \o fmt02(face_idx) \o <<"_">> \o fmt02(idx)

\* int(round(x)) of the quotient num / den: Python rounds a tie to the even integer
round_div(num, den) ==
    LET q == num \div den
        r == num % den
    IN  IF 2 * r < den THEN q
        ELSE IF 2 * r > den THEN q + 1
        ELSE IF q % 2 = 0 THEN q ELSE q + 1

\* a resize_and_save that gives up when the image cannot be processed
resize_and_save_giving_up(src, dst_base) ==
    LET m  == IF src.w > src.h THEN src.w ELSE src.h
        nw == round_div(src.w * MAX_DIM, m)
        nh == round_div(src.h * MAX_DIM, m)
    IN  IF src.opens /\ m > MAX_DIM /\ nw >= 1 /\ nh >= 1 /\ src.encodes
        THEN [dst |-> dst_base \o <<".png">>,
              file |-> [of |-> src.name, w |-> nw, h |-> nh,
                        fmt |-> ".png", image |-> TRUE]]
        ELSE IF src.opens /\ m <= MAX_DIM /\ src.copies
        THEN [dst |-> dst_base \o <<src.ext>>,
              file |-> [of |-> src.name, w |-> src.w, h |-> src.h,
                        fmt |-> src.ext, image |-> src.opens]]
        ELSE [dst |-> None, file |-> None]

\* A source file picked in the file dialog: its name and extension, whether it
\* still exists, whether PIL opens it, its size, and whether encoding and
\* copying it succeed.
\* resize_and_save returns the path written (or None) and the file it leaves there.
\* im.resize raises for a size with a side below 1, as a failed open or save
\* does, and the handler of the exception copies the source.
resize_and_save(src, dst_base) ==
    LET m    == IF src.w > src.h THEN src.w ELSE src.h
        nw   == round_div(src.w * MAX_DIM, m)
        nh   == round_div(src.h * MAX_DIM, m)
        copy == IF src.copies
                THEN [dst |-> dst_base \o <<src.ext>>,
                      file |-> [of |-> src.name, w |-> src.w, h |-> src.h,
                                fmt |-> src.ext, image |-> src.opens]]
                ELSE [dst |-> None, file |-> None]
    IN  IF src.opens /\ m > MAX_DIM /\ nw >= 1 /\ nh >= 1 /\ src.encodes
        THEN [dst |-> dst_base \o <<".png">>,
              file |-> [of |-> src.name, w |-> nw, h |-> nh,
                        fmt |-> ".png", image |-> TRUE]]
        ELSE copy

\* Writing file f at path p (an existing file is replaced)
WriteFile(fs, p, f) == [q \in (DOMAIN fs) \cup {p} |-> IF q = p THEN f ELSE fs[q]]

RemoveFile(fs, p) == [q \in (DOMAIN fs) \ {p} |-> fs[q]]

isfile(fs, p) == p \in DOMAIN fs

\* generate_barcode_qr: the paths written, barcode first
generate_barcode_qr(ean13_str, sku_folder, spcode) ==
    LET bc == IF "barcode" \in libs /\ Len(ean13_str) = 13 /\ isdigit(ean13_str)
              THEN <<sku_folder \o <<"/">> \o spcode \o <<"_barcode.png">>>>
              ELSE <<>>
        qr == IF "qrcode" \in libs
              THEN <<sku_folder \o <<"/">> \o spcode \o <<"_qrcode.png">>>>
              ELSE <<>>
    IN  bc \o qr

CodeImage == [of |-> <<"code">>, w |-> 1, h |-> 1, fmt |-> ".png", image |-> TRUE]

\* the cell ImagePaths as the list the viewer works on:
\* str(row.get("ImagePaths","")).split(";") if row.get("ImagePaths","") else []
image_list(cell) == IF cell # <<>> THEN split(pystr(cell), ";") ELSE <<>>

---------------------------------------------------------------------------
(* Entry tab: validation *)

\* the codes (or labels) of the ticked surface options, in the order of SURFACE_OPTIONS
RECURSIVE ticked(_, _, _)
ticked(ticks, field, k) ==
    IF k > Len(SURFACE_OPTIONS) THEN <<>>
    ELSE (IF SURFACE_OPTIONS[k].label \in ticks THEN <<SURFACE_OPTIONS[k][field]>> ELSE <<>>)
         \o ticked(ticks, field, k + 1)

NoError == None

\* A form is the content of the entry tab's variables:
\* brand, size_label, surfaces, matt_polished, spcode, faces, country, company,
\* batch, commercial_name, notes.
\* validate_inputs(form).err is the message, NoError when the form is accepted.
\* an SPCode check that forgets the range
spcode_valid_digits(sp) == isdigit(sp)

\* sp.isdigit() and 1 <= int(sp) <= 999
spcode_valid(sp) == isdigit(sp) /\ 1 <= int(sp) /\ int(sp) <= 999

validate_inputs(form) ==
    LET sp      == strip(form.spcode)
        faces   == strip(form.faces)
        country == strip(form.country)
        company == strip(form.company)
        batch   == strip(form.batch)
        commercial_name == strip(form.commercial_name)
        err ==
            IF form.brand \notin BRAND_CODES THEN <<"Invalid Brand">>
            ELSE IF form.size_label \notin SIZE_LABELS THEN <<"Invalid Size">>
            ELSE IF form.matt_polished \notin {<<"0">>, <<"1">>}
                 THEN <<"Must select Matt or Polished">>
            ELSE IF ~spcode_valid(sp)
                 THEN <<"SPCode must be 001-999">>
            ELSE IF ~isdigit(faces) \/ int(faces) < 1
                 THEN <<"Faces must be positive integer">>
            ELSE IF ~isdigit(country) \/ Len(country) \notin {2, 3}
                 THEN <<"CountryPrefix should be 2-3 digits">>
            ELSE IF ~isdigit(company) \/ ~(4 <= Len(company) /\ Len(company) <= 9)
                 THEN <<"CompanyPrefix should be 4-9 digits">>
            ELSE IF batch # <<>> /\
                    (slice(batch, 0, 3) # <<"L", "O", "T">>
                     \/ ~(Len(batch) = 8 /\ isdigit(slice(batch, 3, 5))
                          /\ isdigit(slice(batch, 5, 8))))
                 THEN <<"Batch must be empty or LOT[Year][So thu tu] (e.g., LOT2026001)">>
            ELSE IF commercial_name = <<>> THEN <<"Commercial Name is required">>
            ELSE NoError
    IN  IF err # NoError THEN [err |-> err]
        ELSE [err |-> NoError,
              brand_code    |-> form.brand,
              brand_name    |-> BRAND_CODE_TO_NAME(form.brand),
              brand_id      |-> BRAND_CODE_TO_ID(form.brand),
              size_label    |-> form.size_label,
              size_code     |-> SizeCodeOf(form.size_label),
              surface_label |-> join(<<",", " ">>, ticked(form.surfaces, "label", 1)),
              surface_code  |-> join(<<>>, ticked(form.surfaces, "code", 1)),
              matt_polished |-> form.matt_polished,
              spcode        |-> zfill(str(int(sp)), 3),
              commercial_name |-> commercial_name,
              faces         |-> int(faces),
              batch         |-> batch,
              country       |-> country,
              company       |-> company,
              notes         |-> strip(form.notes)]

---------------------------------------------------------------------------
(* Viewer tab: list and preview *)

\* df[df["SKU"].astype(str) == sku]
rows_of(df, sku) == SelectSeq(df, LAMBDA r : pystr(r.SKU) = sku)

\* ViewerTab.refresh with the filters empty: the SKUs listed
refresh(df) == [i \in DOMAIN df |-> pystr(df[i].SKU)]

\* ViewerTab.on_select: the context menus of the preview of sku; the preview
\* shown stays when the product is not found
on_select(df, fs, shown, sku) ==
    LET found == rows_of(df, sku)
    IN  IF found = <<>> THEN shown
        ELSE LET row    == found[1]
                 images == image_list(row.ImagePaths)
                 faces  == int(pystr(row.Faces))
                 show_count == IF faces < Len(images) THEN faces ELSE Len(images)
                 dir    == sku_dir_of(sku)
                 bc     == dir \o <<"/">> \o pystr(row.SPCode) \o <<"_barcode.png">>
                 qr     == dir \o <<"/">> \o pystr(row.SPCode) \o <<"_qrcode.png">>
             IN  {<<sku, images[i]>> : i \in {k \in 1..show_count :
                        isfile(fs, images[k]) /\ fs[images[k]].image}}
                 \cup {<<sku, p>> : p \in {q \in {bc, qr} : isfile(fs, q)}}

\* refresh(select_sku=sku): the selection after the list is rebuilt
selection_set(df, sku) == IF \E i \in DOMAIN df : pystr(df[i].SKU) = sku THEN sku ELSE None

---------------------------------------------------------------------------
(* Inputs: what the user types, ticks and picks *)

VE == <<"V", "E">>
OM == <<"O", "M">>

\* a form that validate_inputs accepts once an SPCode is filled in
Form(brand, size_label, matt_polished, spcode) ==
    [brand |-> brand, size_label |-> size_label,
     surfaces |-> IF matt_polished = <<"1">> THEN {<<"White Body">>, <<"Deep Color">>} ELSE {},
     matt_polished |-> matt_polished, spcode |-> spcode,
     faces |-> IF matt_polished = <<"1">> THEN <<"0", "2">> ELSE <<"1">>,
     country |-> DEFAULT_COUNTRY_PREFIX, company |-> DEFAULT_COMPANY_PREFIX,
     batch |-> IF matt_polished = <<"1">> THEN <<"L", "O", "T", "2", "6", "0", "0", "1">>
               ELSE <<>>,
     commercial_name |-> <<"Lux White Marble">>,
     notes |-> IF matt_polished = <<"1">> THEN <<"n">> ELSE <<>>]

\* the forms Save Product is pressed with: one of the (brand, size, finish)
\* choices, and in the SPCode entry what Generate SPCode left there
\* (spcode_var) or what the user typed over it
FormsOf(choices, typed) ==
    {Form(c[1], c[2], c[3], sp) : c \in choices, sp \in {spcode_var} \cup typed}

\* Spec: two finishes of one (brand, size) pair, the SPCode typed
Choices == {<<VE, <<"60x60">>, <<"0">>>>, <<VE, <<"60x60">>, <<"1">>>>}

TypedSPCodes == {<<"1">>}

Forms == FormsOf(Choices, TypedSPCodes)

\* SpecEntry: two pairs, one of them in both finishes; SPCodes generated or typed
EntryChoices == Choices \cup {<<OM, <<"80x80">>, <<"0">>>>}

EntryTypedSPCodes == {<<" ", "2", " ">>, <<"9", "9", "9">>}

EntryForms == FormsOf(EntryChoices, EntryTypedSPCodes)

\* forms with one field that validate_inputs refuses
BadForms ==
    LET ok == Form(VE, <<"60x60">>, <<"0">>, <<"7">>)
    IN  {[ok EXCEPT !.brand = <<"X", "X">>],
         [ok EXCEPT !.size_label = <<"70x70">>],
         [ok EXCEPT !.matt_polished = <<>>],
         [ok EXCEPT !.spcode = <<"1", "0", "0", "0">>],
         [ok EXCEPT !.faces = <<"0">>],
         [ok EXCEPT !.country = <<"8", "9", "3", "5">>],
         [ok EXCEPT !.company = <<"1", "2", "3">>],
         [ok EXCEPT !.batch = <<"L", "O", "X", "2", "6", "0", "0", "1">>],
         [ok EXCEPT !.commercial_name = <<" ">>]}

ImgSmall == [name |-> <<"a">>, ext |-> ".jpg", exists |-> TRUE, opens |-> TRUE,
             w |-> 800, h |-> 600, encodes |-> TRUE, copies |-> TRUE]

ImgBig == [name |-> <<"b">>, ext |-> ".jpg", exists |-> TRUE, opens |-> TRUE,
           w |-> 4000, h |-> 3000, encodes |-> TRUE, copies |-> TRUE]

\* EntryTab.selected_images when Save Product is pressed
SelectedImages == {<<>>}

\* SpecImage: source files of every kind: at most MAX_DIM a side, larger in
\* one or both sides, a strip whose short side scales to less than a pixel,
\* not an image, an image that cannot be encoded, a file that cannot be
\* read at all, a file that is gone when Save Product is pressed
Img(name, w, h, opens, encodes, copies, exists) ==
    [name |-> <<name>>, ext |-> ".jpg", exists |-> exists, opens |-> opens,
     w |-> w, h |-> h, encodes |-> encodes, copies |-> copies]

ImageSrcs ==
    {Img("small", 800, 600, TRUE, TRUE, TRUE, TRUE),
     Img("limit", 1500, 2000, TRUE, TRUE, TRUE, TRUE),
     Img("big", 4000, 3000, TRUE, TRUE, TRUE, TRUE),
     Img("tall", 3000, 4500, TRUE, TRUE, TRUE, TRUE),
     Img("over", 2001, 1000, TRUE, TRUE, TRUE, TRUE),
     Img("strip", 1, 5000, TRUE, TRUE, TRUE, TRUE),
     Img("text", 1, 1, FALSE, TRUE, TRUE, TRUE),
     Img("raw", 4000, 3000, TRUE, FALSE, TRUE, TRUE),
     Img("locked", 4000, 3000, FALSE, TRUE, FALSE, TRUE),
     Img("gone", 800, 600, TRUE, TRUE, TRUE, FALSE)}

SrcNamed(name) == CHOOSE src \in ImageSrcs : src.name = <<name>>

\* the lists of files chosen: none, one of each kind, and failing files
\* among good ones
ImageLists ==
    {<<>>} \cup {<<src>> : src \in ImageSrcs}
    \cup {<<SrcNamed("locked"), SrcNamed("small")>>,
          <<SrcNamed("big"), SrcNamed("gone"), SrcNamed("raw")>>}

\* SpecForm: the files chosen in the entry tab before Save Product
FormImages == {<<>>, <<ImgSmall>>}

\* what the viewer's file dialog returns
PickedFiles == {<<ImgBig>>}

\* what is typed into the Add Notes dialog
NoteInputs == {<<"m">>}

---------------------------------------------------------------------------
(* Entry tab: handlers *)

\* EntryTab.on_generate_spcode
\* a Generate SPCode that steps on from the number already in the entry
OnGenerateSPCode_step(brand, size_label) ==
    LET sp == IF isdigit(spcode_var) /\ spcode_var # <<>>
              THEN zfill(str(int(spcode_var) + 1), 3)
              ELSE next_spcode_for(brand, SizeCodeOf(size_label))
    IN  /\ spcode_var' = sp
        /\ msg' = <<"Generated">>
        /\ UNCHANGED <<products_xlsx, deleted_xlsx, dirs, files, tree, selection, menus,
                       dialogs, clock, libs>>

OnGenerateSPCode(brand, size_label) ==
    LET sp == next_spcode_for(brand, SizeCodeOf(size_label))
    IN  /\ spcode_var' = sp
        /\ msg' = <<"Generated">>
        /\ UNCHANGED <<products_xlsx, deleted_xlsx, dirs, files, tree, selection, menus,
                       dialogs, clock, libs>>

\* the loop of save_product over selected_images, from the i-th on
RECURSIVE save_images(_, _, _, _, _, _, _)
save_images(srcs, i, idx, sku_dir, spcode, face_count, acc) ==
    IF i > Len(srcs) THEN acc
    ELSE IF ~srcs[i].exists
    THEN save_images(srcs, i + 1, idx, sku_dir, spcode, face_count, acc)
    ELSE LET face_idx == ((i - 1) % face_count) + 1
             base == face_base(sku_dir, spcode, face_idx, idx)
             r    == resize_and_save(srcs[i], base)
             next == IF r.dst # None
                     THEN [saved_paths |-> Append(acc.saved_paths, r.dst),
                           fs |-> WriteFile(acc.fs, r.dst, r.file)]
                     ELSE acc
         IN  save_images(srcs, i + 1, idx + 1, sku_dir, spcode, face_count, next)

RECURSIVE WriteAll(_, _, _)
WriteAll(fs, paths, f) ==
    IF paths = <<>> THEN fs ELSE WriteAll(WriteFile(fs, Head(paths), f), Tail(paths), f)

\* dt.datetime.now().strftime(...) of the n-th save
Timestamp(n) == <<"t">> \o str(n)

\* a duplicate check that never finds the SKU
sku_exists_never(df, sku) == FALSE

\* sku in df["SKU"].astype(str).values
sku_exists(df, sku) == sku \in {pystr(df[i].SKU) : i \in DOMAIN df}

\* EntryTab.save_product
SaveProduct(form, selected_images) ==
    LET data == validate_inputs(form)
    IN  IF data.err # NoError
        THEN /\ msg' = <<"Validation">>
             /\ UNCHANGED <<products_xlsx, deleted_xlsx, dirs, files, spcode_var, tree,
                            selection, menus, dialogs, clock, libs>>
        ELSE
        LET df    == load_df
            sku   == build_sku(data.brand_code, data.size_code, data.matt_polished,
                               data.spcode)
            ean13 == build_ean13(data.country, data.company, data.brand_id, data.spcode)
        IN  IF sku_exists(df, sku)
            THEN /\ msg' = <<"Duplicate">>
                 /\ UNCHANGED <<products_xlsx, deleted_xlsx, dirs, files, spcode_var, tree,
                                selection, menus, dialogs, clock, libs>>
            ELSE
            LET sku_dir == sku_dir_of(sku)
                imgs    == save_images(selected_images, 1, 1, sku_dir, data.spcode,
                                       data.faces, [saved_paths |-> <<>>, fs |-> files])
                codes   == generate_barcode_qr(ean13, sku_dir, data.spcode)
                saved_paths == imgs.saved_paths \o codes
                new_row ==
                    [Timestamp |-> Timestamp(clock + 1),
                     BrandCode |-> data.brand_code,
                     BrandName |-> data.brand_name,
                     BrandID |-> data.brand_id,
                     SizeLabel |-> data.size_label,
                     SizeCode |-> data.size_code,
                     SurfaceLabel |-> data.surface_label,
                     SurfaceCode |-> data.surface_code,
                     MattPolished |-> data.matt_polished,
                     SPCode |-> data.spcode,
                     SKU |-> sku,
                     CommercialName |-> data.commercial_name,
                     Faces |-> str(data.faces),
                     Batch |-> data.batch,
                     CountryPrefix |-> data.country,
                     CompanyPrefix |-> data.company,
                     EAN13 |-> ean13,
                     ImagePaths |-> join(<<";">>, saved_paths),
                     Notes |-> data.notes]
                sheet == to_excel(Append(df, new_row))
                fs    == WriteAll(imgs.fs, codes, CodeImage)
            IN  /\ clock < MaxSaves
                /\ clock' = clock + 1
                /\ dirs' = dirs \cup {sku_dir}
                /\ files' = fs
                /\ products_xlsx' = sheet
                /\ msg' = <<"Saved">>
                /\ tree' = refresh(load(sheet))
                /\ selection' = selection_set(load(sheet), sku)
                /\ menus' = on_select(load(sheet), fs, menus, sku)
                /\ spcode_var' = <<>>
                /\ UNCHANGED <<deleted_xlsx, dialogs, libs>>

---------------------------------------------------------------------------
(* Viewer tab: handlers *)

\* df.loc[df["SKU"] == sku, column] = value
set_cell(df, sku, column, value) ==
    [i \in DOMAIN df |-> IF df[i].SKU = sku THEN [df[i] EXCEPT ![column] = value] ELSE df[i]]

\* a click on a row of the list: <<TreeviewSelect>> runs on_select
OnSelect(sku) ==
    /\ sku \in Range(tree)
    /\ selection' = sku
    /\ menus' = on_select(load_df, files, menus, sku)
    /\ UNCHANGED <<products_xlsx, deleted_xlsx, dirs, files, spcode_var, tree, dialogs,
                   msg, clock, libs>>

\* the loop of ViewerTab.add_images over the picked files, from the k-th on
RECURSIVE add_loop(_, _, _, _, _, _, _)
add_loop(srcs, k, idx, sku_dir, spcode, face_count, acc) ==
    IF k > Len(srcs) THEN acc
    ELSE IF ~srcs[k].exists
    THEN add_loop(srcs, k + 1, idx, sku_dir, spcode, face_count, acc)
    ELSE LET i        == idx + k - 1
             face_idx == ((i - 1) % face_count) + 1
             base     == face_base(sku_dir, spcode, face_idx, i)
             r        == resize_and_save(srcs[k], base)
             fs       == IF r.dst # None THEN WriteFile(acc.fs, r.dst, r.file) ELSE acc.fs
             paths    == IF r.dst # None /\ r.dst \notin Range(acc.saved_paths)
                         THEN Append(acc.saved_paths, r.dst) ELSE acc.saved_paths
         IN  add_loop(srcs, k + 1, idx, sku_dir, spcode, face_count,
                      [saved_paths |-> paths, fs |-> fs])

\* ViewerTab.add_images, with the files the dialog returned; the running
\* index it starts from is capped at max_idx
AddImagesUpTo(picked, max_idx) ==
    /\ selection # None
    /\ LET sku   == selection
           df    == load_df
           found == rows_of(df, sku)
       IN  IF found = <<>>
           THEN /\ msg' = <<"Product not found.">>
                /\ UNCHANGED <<products_xlsx, deleted_xlsx, dirs, files, spcode_var, tree,
                               selection, menus, dialogs, clock, libs>>
           ELSE
           LET row         == found[1]
               sku_dir     == sku_dir_of(sku)
               saved_paths == image_list(row.ImagePaths)
               face_count  == int(pystr(row.Faces))
               spcode      == pystr(row.SPCode)
               idx == Cardinality({j \in DOMAIN saved_paths :
                                     "_face" \in Range(saved_paths[j])}) + 1
               out == add_loop(picked, 1, idx, sku_dir, spcode, face_count,
                               [saved_paths |-> saved_paths, fs |-> files])
               sheet == to_excel(set_cell(df, sku, "ImagePaths",
                                          join(<<";">>, out.saved_paths)))
           IN  /\ idx <= max_idx
               /\ dirs' = dirs \cup {sku_dir}
               /\ files' = out.fs
               /\ products_xlsx' = sheet
               /\ tree' = refresh(load(sheet))
               /\ selection' = selection_set(load(sheet), sku)
               /\ menus' = on_select(load(sheet), out.fs, menus, sku)
               /\ msg' = <<"Added images">>
               /\ UNCHANGED <<deleted_xlsx, spcode_var, dialogs, clock, libs>>

AddImages(picked) == AddImagesUpTo(picked, MaxFaces)

\* a delete_image_from_product that does not look for the path in the list
delete_image_from_product_unchecked(sku, img_path, removes) ==
    LET df    == load_df
        found == rows_of(df, sku)
    IN  IF found = <<>> THEN [ok |-> FALSE, sheet |-> products_xlsx, fs |-> files]
        ELSE [ok |-> TRUE,
              sheet |-> to_excel(set_cell(df, sku, "ImagePaths",
                          join(<<";">>, SelectSeq(image_list(found[1].ImagePaths),
                                                  LAMBDA q : q # img_path)))),
              fs |-> IF removes THEN RemoveFile(files, img_path) ELSE files]

\* delete_image_from_product: its result, and the sheet and the files it leaves;
\* removes tells whether os.remove succeeds
delete_image_from_product(sku, img_path, removes) ==
    LET df     == load_df
        found  == rows_of(df, sku)
        no     == [ok |-> FALSE, sheet |-> products_xlsx, fs |-> files]
    IN  IF found = <<>> THEN no
        ELSE LET images == image_list(found[1].ImagePaths)
             IN  IF img_path \in Range(images)
                 THEN [ok |-> TRUE,
                       sheet |-> to_excel(set_cell(df, sku, "ImagePaths",
                                                   join(<<";">>, remove(images, img_path)))),
                       fs |-> IF removes THEN RemoveFile(files, img_path) ELSE files]
                 ELSE no

\* ViewerTab.delete_image, confirmed, from a context menu of the preview
DeleteImage(img_path, sku, removes) ==
    /\ <<sku, img_path>> \in menus
    /\ LET r == delete_image_from_product(sku, img_path, removes)
       IN  /\ products_xlsx' = r.sheet
           /\ files' = r.fs
           /\ IF r.ok
              THEN /\ msg' = <<"Image deleted">>
                   /\ tree' = refresh(load(r.sheet))
                   /\ selection' = selection_set(load(r.sheet), sku)
                   /\ menus' = on_select(load(r.sheet), r.fs, menus, sku)
              ELSE /\ msg' = <<"Failed to delete image">>
                   /\ UNCHANGED <<tree, selection, menus>>
           /\ UNCHANGED <<deleted_xlsx, dirs, spcode_var, dialogs, clock, libs>>

\* a delete that drops the row without keeping it in the deleted file
delete_product_hard(sku) ==
    LET df == load_df
    IN  [found |-> rows_of(df, sku) # <<>>,
         deleted_df |-> load_deleted_df,
         df |-> SelectSeq(df, LAMBDA r : r.SKU # sku)]

\* ViewerTab.delete_product from load_df on: whether the row was found, and
\* the tables written to the deleted and to the active file
delete_product(sku) ==
    LET df    == load_df
        found == rows_of(df, sku)
    IN  IF found = <<>>
        THEN [found |-> FALSE, deleted_df |-> load_deleted_df, df |-> df]
        ELSE [found |-> TRUE,
              deleted_df |-> Append(load_deleted_df, found[1]),
              df |-> SelectSeq(df, LAMBDA r : r.SKU # sku)]

\* ViewerTab.delete_product, confirmed
DeleteProduct ==
    /\ selection # None
    /\ LET out == delete_product(selection)
       IN  IF ~out.found
           THEN /\ msg' = <<"Product not found.">>
                /\ UNCHANGED <<products_xlsx, deleted_xlsx, dirs, files, spcode_var, tree,
                               selection, menus, dialogs, clock, libs>>
           ELSE /\ Len(deleted_xlsx) < MaxDeleted
                /\ deleted_xlsx' = to_excel(out.deleted_df)
                /\ products_xlsx' = to_excel(out.df)
                /\ tree' = refresh(load(to_excel(out.df)))
                /\ selection' = None
                /\ msg' = <<"Deleted">>
                /\ UNCHANGED <<dirs, files, spcode_var, menus, dialogs, clock, libs>>

\* a delete that rewrites the active file before it writes the deleted file
delete_writes_active_first(sku) ==
    LET out == delete_product(sku)
    IN  <<[path |-> "products.xlsx", sheet |-> to_excel(out.df)],
          [path |-> "deleted_products.xlsx", sheet |-> to_excel(out.deleted_df)]>>

\* the files ViewerTab.delete_product writes, in the order of its statements:
\* save_deleted_df(deleted_df), then save_df(df)
delete_writes(sku) ==
    LET out == delete_product(sku)
    IN  <<[path |-> "deleted_products.xlsx", sheet |-> to_excel(out.deleted_df)],
          [path |-> "products.xlsx", sheet |-> to_excel(out.df)]>>

\* what the file at path holds after the writes, sheet being what it held before
written(writes, path, sheet) ==
    LET at == {i \in DOMAIN writes : writes[i].path = path}
    IN  IF at = {} THEN sheet ELSE writes[Max(at)].sheet

\* ViewerTab.delete_product, confirmed, that runs to its end (n = 2) or is
\* stopped by an exception of its first write (n = 0: save_deleted_df) or of
\* its second (n = 1: save_df, as when Products.xlsx is open elsewhere); Tk
\* reports the exception and the main loop goes on
DeleteProductUpTo(n) ==
    /\ selection # None
    /\ LET out    == delete_product(selection)
           writes == SubSeq(delete_writes(selection), 1, n)
       IN  IF ~out.found
           THEN /\ n = 2
                /\ msg' = <<"Product not found.">>
                /\ UNCHANGED <<products_xlsx, deleted_xlsx, dirs, files, spcode_var, tree,
                               selection, menus, dialogs, clock, libs>>
           ELSE /\ Len(deleted_xlsx) < MaxDeletedRows
                /\ deleted_xlsx' = written(writes, "deleted_products.xlsx", deleted_xlsx)
                /\ products_xlsx' = written(writes, "products.xlsx", products_xlsx)
                /\ IF n = 2
                   THEN /\ tree' = refresh(load(to_excel(out.df)))
                        /\ selection' = None
                        /\ msg' = <<"Deleted">>
                   ELSE UNCHANGED <<tree, selection, msg>>
                /\ UNCHANGED <<dirs, files, spcode_var, menus, dialogs, clock, libs>>

---------------------------------------------------------------------------
(* Viewer tab: Add Notes *)

\* number of "; " separators in a note
Separators(notes) == Cardinality({i \in DOMAIN notes : notes[i] = ";"})

\* ViewerTab.add_notes up to wait_window(dialog): the table is loaded, the
\* dialog opens (it takes no grab, so the main window stays usable), and the
\* handler's frame waits for the dialog to be destroyed.
AddNotes ==
    /\ selection # None
    /\ Len(dialogs) < MaxDialogs
    /\ LET sku   == selection
           df    == load_df
           found == rows_of(df, sku)
       IN  IF found = <<>>
           THEN /\ msg' = <<"Product not found.">>
                /\ UNCHANGED dialogs
           ELSE /\ Separators(pystr(found[1].Notes)) < MaxNotes
                /\ dialogs' = Append(dialogs, [sku |-> sku, df |-> df,
                                               current_notes |-> found[1].Notes,
                                               open |-> TRUE, result |-> None])
                /\ UNCHANGED msg
    /\ UNCHANGED <<products_xlsx, deleted_xlsx, dirs, files, spcode_var, tree, selection,
                   menus, clock, libs>>

\* AddNotesDialog.on_ok: the result, None when the note is refused
on_ok(current_notes, note_var) ==
    LET new_note == strip(note_var)
    IN  IF new_note = <<>> THEN None
        ELSE IF current_notes # <<>> THEN pystr(current_notes) \o <<";", " ">> \o new_note
        ELSE new_note

\* ViewerTab.add_notes after wait_window(dialog) returned, for the frame d:
\* what it leaves of the sheet, the list, the selection, the menus and the message
add_notes_resume(d, ui) ==
    IF d.result = None THEN ui
    ELSE LET sheet == to_excel(set_cell(d.df, d.sku, "Notes", d.result))
         IN  [sheet |-> sheet,
              tree |-> refresh(load(sheet)),
              selection |-> selection_set(load(sheet), d.sku),
              menus |-> on_select(load(sheet), files, ui.menus, d.sku),
              msg |-> <<"Added note">>]

\* The nested wait_window calls return innermost first: a frame resumes once
\* its dialog is destroyed and every frame above it has returned.
RECURSIVE unwind(_, _)
unwind(stack, ui) ==
    IF stack = <<>> \/ stack[Len(stack)].open THEN [dialogs |-> stack, ui |-> ui]
    ELSE unwind(SubSeq(stack, 1, Len(stack) - 1), add_notes_resume(stack[Len(stack)], ui))

Resume(stack, message) ==
    LET out == unwind(stack, [sheet |-> products_xlsx, tree |-> tree,
                              selection |-> selection, menus |-> menus, msg |-> message])
    IN  /\ dialogs' = out.dialogs
        /\ products_xlsx' = out.ui.sheet
        /\ tree' = out.ui.tree
        /\ selection' = out.ui.selection
        /\ menus' = out.ui.menus
        /\ msg' = out.ui.msg
        /\ UNCHANGED <<deleted_xlsx, dirs, files, spcode_var, clock, libs>>

\* OK pressed in the k-th open dialog
DialogOk(k, note_var) ==
    /\ k \in DOMAIN dialogs
    /\ dialogs[k].open
    /\ LET result == on_ok(dialogs[k].current_notes, note_var)
       IN  IF result = None
           THEN /\ msg' = <<"Note cannot be empty">>
                /\ UNCHANGED <<products_xlsx, deleted_xlsx, dirs, files, spcode_var, tree,
                               selection, menus, dialogs, clock, libs>>
           ELSE Resume([dialogs EXCEPT ![k] = [@ EXCEPT !.open = FALSE, !.result = result]],
                       msg)

\* Cancel pressed in the k-th open dialog
DialogCancel(k) ==
    /\ k \in DOMAIN dialogs
    /\ dialogs[k].open
    /\ Resume([dialogs EXCEPT ![k] = [@ EXCEPT !.open = FALSE, !.result = None]], msg)

---------------------------------------------------------------------------
(* The program *)

Init ==
    /\ products_xlsx = <<>>
    /\ deleted_xlsx = <<>>
    /\ dirs = {}
    /\ files = <<>>
    /\ spcode_var = <<>>
    /\ tree = <<>>
    /\ selection = None
    /\ menus = {}
    /\ dialogs = <<>>
    /\ msg = <<"Ready">>
    /\ clock = 0
    /\ interleaved = 0
    /\ libs = {"qrcode"}

\* Every handler runs to its end before the next event is taken, except that
\* wait_window lets the handlers of the main window run while a dialog is open.
Handler == /\ dialogs # <<>> => interleaved < MaxInterleaved
           /\ interleaved' = IF dialogs = <<>> THEN 0 ELSE interleaved + 1

Closing == interleaved' = IF dialogs' = <<>> THEN 0 ELSE interleaved

\* Generate SPCode only fills the SPCode entry: in Spec the entry is typed,
\* and SpecEntry has the button.
Next ==
    \/ Handler /\ \E form \in Forms, selected_images \in SelectedImages :
                     SaveProduct(form, selected_images)
    \/ Handler /\ \E sku \in Range(tree) : OnSelect(sku)
    \/ Handler /\ \E picked \in PickedFiles : AddImages(picked)
    \/ Handler /\ \E m \in menus : DeleteImage(m[2], m[1], TRUE)
    \/ Handler /\ DeleteProduct
    \/ Handler /\ AddNotes
    \/ \E k \in DOMAIN dialogs, note_var \in NoteInputs : DialogOk(k, note_var) /\ Closing
    \/ \E k \in DOMAIN dialogs : DialogCancel(k) /\ Closing

Spec == Init /\ [][Next]_vars

\* The entry tab with the Generate SPCode button, and the viewer's Delete
NextEntry ==
    \/ Handler /\ \E c \in EntryChoices : OnGenerateSPCode(c[1], c[2])
    \/ Handler /\ \E form \in EntryForms : SaveProduct(form, <<>>)
    \/ Handler /\ \E sku \in Range(tree) : OnSelect(sku)
    \/ Handler /\ DeleteProduct

SpecEntry == Init /\ [][NextEntry]_vars

\* The entry tab's Save Product with forms that validate_inputs refuses among
\* those it accepts, and the viewer's Delete
NextForm ==
    \/ Handler /\ \E form \in Forms \cup BadForms, selected_images \in FormImages :
                     SaveProduct(form, selected_images)
    \/ Handler /\ \E sku \in Range(tree) : OnSelect(sku)
    \/ Handler /\ DeleteProduct

SpecForm == Init /\ [][NextForm]_vars

\* Forms that differ in brand, size, finish, SPCode and in the length of the
\* two barcode prefixes: with brand id and SPCode they give 10 to 16 digits
Prefixed(form, country, company) ==
    [form EXCEPT !.country = country, !.company = company]

DerivedForms ==
    {Prefixed(Form(VE, <<"60x60">>, <<"0">>, <<"1">>),
              <<"8", "9", "3">>, <<"1", "2", "3", "4", "5">>),
     Prefixed(Form(VE, <<"60x60">>, <<"1">>, <<"1">>),
              <<"8", "9">>, <<"1", "2", "3", "4">>),
     Prefixed(Form(<<"S", "A">>, <<"60x60">>, <<"0">>, <<"1">>),
              <<"8", "9", "3">>, <<"1", "2", "3", "4", "5", "6", "7", "8", "9">>),
     Prefixed(Form(VE, <<"60x120">>, <<"0">>, <<"1">>),
              <<"8", "9">>, <<"5", "6", "4", "7", "3", "8">>),
     Prefixed(Form(VE, <<"60x60">>, <<"0">>, <<"1", "2">>),
              <<"8", "9", "3">>, <<"9", "0", "7", "8">>),
     Prefixed(Form(VE, <<"60x60">>, <<"0">>, <<"9", "9", "9">>),
              <<"8", "9", "3">>, <<"5", "6", "4", "7", "3", "8", "2">>),
     Prefixed(Form(OM, <<"80x80">>, <<"1">>, <<" ", "7">>),
              <<"3", "0">>, <<"4", "0", "5", "0", "6">>),
     Prefixed(Form(<<"G", "A">>, <<"120x240">>, <<"1">>, <<"0", "4", "0">>),
              <<"4", "0", "0">>, <<"7", "6", "5", "4", "3", "2">>)}

\* Save Product over these forms, and the viewer's Delete
NextDerived ==
    \/ Handler /\ \E form \in DerivedForms : SaveProduct(form, <<>>)
    \/ Handler /\ \E sku \in Range(tree) : OnSelect(sku)
    \/ Handler /\ DeleteProduct

SpecDerived == Init /\ [][NextDerived]_vars

\* Products of one brand in two sizes and both finishes, with the default
\* barcode prefixes or shorter ones, one sequence typed or another
SharedForms ==
    {Prefixed(Form(VE, size_label, matt_polished, spcode), p[1], p[2]) :
        size_label \in {<<"60x60">>, <<"60x120">>},
        matt_polished \in {<<"0">>, <<"1">>},
        spcode \in {<<"1">>, <<"2">>},
        p \in {<<DEFAULT_COUNTRY_PREFIX, DEFAULT_COMPANY_PREFIX>>,
               <<<<"8", "9">>, <<"1", "2", "3", "4">>>>}}

NextShared ==
    \/ Handler /\ \E form \in SharedForms : SaveProduct(form, <<>>)
    \/ Handler /\ \E sku \in Range(tree) : OnSelect(sku)
    \/ Handler /\ DeleteProduct

SpecShared == Init /\ [][NextShared]_vars

\* One product with its images: saved with files of every kind, images added
\* and deleted in the viewer
ImageForms == {Form(VE, <<"60x60">>, <<"1">>, <<"1">>)}

NextImage ==
    \/ Handler /\ \E form \in ImageForms, selected_images \in ImageLists :
                     SaveProduct(form, selected_images)
    \/ Handler /\ \E picked \in ImageLists : AddImages(picked)
    \/ Handler /\ \E m \in menus, removes \in BOOLEAN : DeleteImage(m[2], m[1], removes)

SpecImage == Init /\ [][NextImage]_vars

\* Batch codes typed in the entry tab: none, a two-digit and a four-digit year
\* with a serial number, blanks around a code, and codes with another
\* prefix, a letter among the digits or no serial number
BatchCodes ==
    {<<>>,
     <<"L", "O", "T", "2", "6", "0", "0", "1">>,
     <<"L", "O", "T", "2", "0", "2", "6", "0", "0", "1">>,
     <<" ", "L", "O", "T", "2", "6", "0", "0", "2", " ">>,
     <<"L", "O", "X", "2", "6", "0", "0", "1">>,
     <<"L", "O", "T", "2", "6", "A", "0", "1">>,
     <<"L", "O", "T", "2", "6">>}

BatchForms == {[form EXCEPT !.batch = batch] : form \in Forms, batch \in BatchCodes}

NextBatch ==
    \/ Handler /\ \E form \in BatchForms : SaveProduct(form, <<>>)
    \/ Handler /\ \E sku \in Range(tree) : OnSelect(sku)
    \/ Handler /\ DeleteProduct

SpecBatch == Init /\ [][NextBatch]_vars

\* One product of two faces whose images are added and deleted in the viewer
\* while some are listed: good files, and a file that cannot be read before
\* a good one
FaceLists ==
    {<<SrcNamed("small")>>, <<SrcNamed("big")>>, <<SrcNamed("limit")>>,
     <<SrcNamed("locked"), SrcNamed("small")>>}

NextFaces ==
    \/ Handler /\ \E form \in ImageForms, selected_images \in {<<>>} \cup FaceLists :
                     SaveProduct(form, selected_images)
    \/ Handler /\ \E picked \in FaceLists : AddImagesUpTo(picked, MaxFaceIndex)
    \/ Handler /\ \E m \in menus : DeleteImage(m[2], m[1], TRUE)

SpecFaces == Init /\ [][NextFaces]_vars

\* Deletes that run to their end or stop at one of their two writes
NextDelete ==
    \/ Handler /\ \E form \in Forms : SaveProduct(form, <<>>)
    \/ Handler /\ \E sku \in Range(tree) : OnSelect(sku)
    \/ Handler /\ \E n \in 0..2 : DeleteProductUpTo(n)

SpecDelete == Init /\ [][NextDelete]_vars

\* Products saved with and without notes, and the Add Notes dialog with a
\* note, a blank note and a note between blanks
NoteTexts == {<<"m">>, <<" ">>, <<" ", "k", " ">>}

NextNotes ==
    \/ Handler /\ \E form \in Forms : SaveProduct(form, <<>>)
    \/ Handler /\ \E sku \in Range(tree) : OnSelect(sku)
    \/ Handler /\ AddNotes
    \/ \E k \in DOMAIN dialogs, note_var \in NoteTexts : DialogOk(k, note_var) /\ Closing
    \/ \E k \in DOMAIN dialogs : DialogCancel(k) /\ Closing

SpecNotes == Init /\ [][NextNotes]_vars

---------------------------------------------------------------------------
(* The SPCode allocator over a products file that was edited by hand *)

\* the SPCode cells of the hand-made rows: blank, text, digits, digits with
\* surrounding blanks, the largest accepted number
AllocCells ==
    {<<>>, <<"x">>, <<"7">>, <<" ", "7">>, <<" ", "1", "2">>, <<"0", "4", "1">>,
     <<"9", "9", "9">>}

AllocChoices == {<<VE, <<"60x60">>>>, <<OM, <<"80x80">>>>}

AllocRow(brand, size_label, cell) ==
    [c \in COLUMNS |->
        CASE c = "BrandCode" -> brand
          [] c = "SizeCode"  -> SizeCodeOf(size_label)
          [] c = "SizeLabel" -> size_label
          [] c = "MattPolished" -> <<"0">>
          [] c = "SPCode"    -> cell
          [] c = "SKU"       -> brand \o SizeCodeOf(size_label) \o <<"0">> \o cell
          [] OTHER           -> <<>>]

AllocRows == {AllocRow(c[1], c[2], cell) : c \in AllocChoices, cell \in AllocCells}

AllocTables == UNION {[1..n -> AllocRows] : n \in 0..MaxRows}

InitAlloc ==
    /\ products_xlsx \in AllocTables
    /\ deleted_xlsx = <<>>
    /\ dirs = {}
    /\ files = <<>>
    /\ spcode_var = <<>>
    /\ tree = refresh(load(products_xlsx))
    /\ selection = None
    /\ menus = {}
    /\ dialogs = <<>>
    /\ msg = <<"Ready">>
    /\ clock = 0
    /\ interleaved = 0
    /\ libs = {"qrcode"}

NextAlloc == Handler /\ \E c \in AllocChoices : OnGenerateSPCode(c[1], c[2])

SpecAlloc == InitAlloc /\ [][NextAlloc]_vars

---------------------------------------------------------------------------
(* Properties *)

\* the (brand, size, finish, sequence) of a form that passes validation are
\* those of a row of the active set
SameProduct(form) ==
    LET d == validate_inputs(form)
    IN  /\ d.err = NoError
        /\ \E i \in DOMAIN products_xlsx :
              /\ products_xlsx[i].BrandCode = d.brand_code
              /\ products_xlsx[i].SizeCode = d.size_code
              /\ products_xlsx[i].MattPolished = d.matt_polished
              /\ products_xlsx[i].SPCode = d.spcode

\* the input of a form fails validation: one of its trimmed fields is not
\* what the entry tab asks for
FailsValidation(form) ==
    LET sp      == strip(form.spcode)
        faces   == strip(form.faces)
        country == strip(form.country)
        company == strip(form.company)
        batch   == strip(form.batch)
    IN  \/ form.brand \notin {BRAND_LIST[i].code : i \in DOMAIN BRAND_LIST}
        \/ form.size_label \notin {SIZES[i].label : i \in DOMAIN SIZES}
        \/ form.matt_polished \notin {<<"0">>, <<"1">>}
        \/ \E i \in DOMAIN sp : sp[i] \notin Range(DigitChars)
        \/ sp = <<>>
        \/ int(sp) \notin 1..999
        \/ \E i \in DOMAIN faces : faces[i] \notin Range(DigitChars)
        \/ faces = <<>>
        \/ int(faces) = 0
        \/ \E i \in DOMAIN country : country[i] \notin Range(DigitChars)
        \/ Len(country) \notin 2..3
        \/ \E i \in DOMAIN company : company[i] \notin Range(DigitChars)
        \/ Len(company) \notin 4..9
        \/ /\ batch # <<>>
           /\ \/ Len(batch) # 8
              \/ SubSeq(batch, 1, 3) # <<"L", "O", "T">>
              \/ \E i \in 4..8 : batch[i] \notin Range(DigitChars)
        \/ strip(form.commercial_name) = <<>>

\* C1: after any sequence of saves, image additions, notes, image deletions
\* and product deletions from the empty store, no two rows of the active set
\* have the same SKU.
C1_UniqueSKU ==
    \A i, j \in DOMAIN products_xlsx :
        i # j => products_xlsx[i].SKU # products_xlsx[j].SKU

C1_Witness ==
    /\ Len(products_xlsx) >= 2
    /\ msg = <<"Saved">>

\* C2: a save whose validated (brand, size, finish, sequence) are those of an
\* active product is rejected: the active and the deleted set stay as they
\* are and no image folder or file is created.
C2_DuplicateRejected ==
    [][\A form \in Forms, selected_images \in SelectedImages :
          (SaveProduct(form, selected_images) /\ SameProduct(form))
          => /\ msg' = <<"Duplicate">>
             /\ UNCHANGED <<products_xlsx, deleted_xlsx, dirs, files>>]_vars

C2_Witness ==
    /\ msg = <<"Duplicate">>
    /\ products_xlsx # <<>>

\* the rows of the active table, as load_df returns them, of a pair
PairRows(brand_code, size_code) ==
    {i \in DOMAIN load_df :
        load_df[i].BrandCode = brand_code /\ load_df[i].SizeCode = size_code}

\* a sequence cell counts as its integer value when it is all digits, else 0
DigitsValue(cell) ==
    IF cell # <<>> /\ \A i \in DOMAIN cell : cell[i] \in Range(DigitChars)
    THEN int(cell) ELSE 0

\* one more than the largest of the values, never below 1, in three digits or more
OneMore(values) ==
    LET n == Max({1} \cup {v + 1 : v \in values})
    IN  IF n < 10 THEN <<"0", "0">> \o str(n)
        ELSE IF n < 100 THEN <<"0">> \o str(n)
        ELSE str(n)

C4_NoSideEffect ==
    [][\A c \in EntryChoices :
          OnGenerateSPCode(c[1], c[2])
          => /\ UNCHANGED <<products_xlsx, deleted_xlsx>>
             /\ spcode_var' = next_spcode_in(load(products_xlsx'), c[1], SizeCodeOf(c[2]))
             /\ PairRows(c[1], SizeCodeOf(c[2])) = {} => spcode_var' = <<"0", "0", "1">>]_vars

C4_Witness ==
    /\ spcode_var = <<"0", "0", "2">>
    /\ products_xlsx # <<>>

\* C5: a deleted product does not free its sequence: next_spcode_for never
\* returns, for a pair, the sequence of a deleted product of that pair.
C5_NoReuse ==
    \A i \in DOMAIN deleted_xlsx :
        next_spcode_for(deleted_xlsx[i].BrandCode, deleted_xlsx[i].SizeCode)
            # deleted_xlsx[i].SPCode

\* C6: whatever the store holds, next_spcode_for returns exactly three digits
\* that denote a number from 1 to 999, which validate_inputs accepts as SPCode.
C6_ThreeDigits ==
    \A c \in EntryChoices :
        LET sp == next_spcode_for(c[1], SizeCodeOf(c[2]))
        IN  /\ Len(sp) = 3
            /\ \A i \in DOMAIN sp : sp[i] \in Range(DigitChars)
            /\ int(sp) \in 1..999
            /\ validate_inputs(Form(c[1], c[2], c[3], sp)).err = NoError

Kept(k) ==
    \E r \in Range(products_xlsx) \cup Range(deleted_xlsx) : r.Timestamp = Timestamp(k)

\* C8: there is no hard delete: every product whose save succeeded has a row
\* in the active or in the deleted set, and a row once appended to the
\* deleted set is never removed or changed.
C8_NoHardDelete ==
    [][/\ \A k \in 1..clock' : Kept(k)'
       /\ Len(deleted_xlsx') >= Len(deleted_xlsx)
       /\ \A i \in DOMAIN deleted_xlsx : deleted_xlsx'[i] = deleted_xlsx[i]]_vars

\* C9: operations on the store do not interleave: while Add Notes waits for
\* its dialog, between its load of the active table and its write, no other
\* operation writes the store, so the table it loaded is still the stored one.
C9_NoInterleaving ==
    \A k \in DOMAIN dialogs : dialogs[k].df = load_df

\* C10: a save whose input fails validation is blocked with a message: the
\* active set, the deleted set and the image folders stay as they are.
C10_InvalidBlocked ==
    [][\A form \in Forms \cup BadForms, selected_images \in FormImages :
          (SaveProduct(form, selected_images) /\ FailsValidation(form))
          => /\ msg' = <<"Validation">>
             /\ UNCHANGED <<products_xlsx, deleted_xlsx, dirs, files>>]_vars

C10_Witness ==
    /\ msg = <<"Validation">>
    /\ products_xlsx # <<>>

\* the rows of the two files
StoredRows == Range(products_xlsx) \cup Range(deleted_xlsx)

\* the digit at position i of a text of digits
Digit(text, i) == CHOOSE d \in 0..9 : DigitChars[d + 1] = text[i]

\* a text without its i-th character
Drop(text, i) == SubSeq(text, 1, i - 1) \o SubSeq(text, i + 1, Len(text))

\* C11: for a string d1..d12 of 12 decimal digits ean13_checkdigit returns
\* one character, the digit
\* (10 - ((d1+d3+d5+d7+d9+d11) + 3*(d2+d4+d6+d8+d10+d12)) mod 10) mod 10;
\* the strings are the 12-digit base of every stored EAN-13 and the other
\* twelve digits out of its thirteen.
C11_CheckDigit ==
    \A r \in StoredRows : \A i \in 1..13 :
        LET b == Drop(r.EAN13, i)
            odd  == Digit(b, 1) + Digit(b, 3) + Digit(b, 5) + Digit(b, 7) + Digit(b, 9)
                    + Digit(b, 11)
            even == Digit(b, 2) + Digit(b, 4) + Digit(b, 6) + Digit(b, 8) + Digit(b, 10)
                    + Digit(b, 12)
        IN  ean13_checkdigit(b) = <<DigitChars[((10 - ((odd + 3 * even) % 10)) % 10) + 1]>>

C11_Witness ==
    /\ msg = <<"Saved">>
    /\ \E r \in StoredRows : r.EAN13[13] = "0"
    /\ \E r \in StoredRows : r.EAN13[13] \notin {"0", "6"}

\* C12: for a country prefix of 2-3 digits, a company prefix of 4-9 digits,
\* a brand id of the table and a sequence in 1..999, build_ean13 returns 13
\* decimal digits whose sum weighted 1,3,1,3,...,1 from the left is a
\* multiple of 10.
C12_ValidEAN13 ==
    \A r \in StoredRows :
        LET e == build_ean13(r.CountryPrefix, r.CompanyPrefix, r.BrandID, r.SPCode)
        IN  /\ Len(e) = 13
            /\ \A i \in 1..Len(e) : e[i] \in Range(DigitChars)
            /\ (Digit(e, 1) + 3 * Digit(e, 2) + Digit(e, 3) + 3 * Digit(e, 4)
                + Digit(e, 5) + 3 * Digit(e, 6) + Digit(e, 7) + 3 * Digit(e, 8)
                + Digit(e, 9) + 3 * Digit(e, 10) + Digit(e, 11) + 3 * Digit(e, 12)
                + Digit(e, 13)) % 10 = 0

C12_Witness ==
    /\ \E r \in StoredRows : Len(r.CountryPrefix) + Len(r.CompanyPrefix) < 8
    /\ \E r \in StoredRows : Len(r.CountryPrefix) + Len(r.CompanyPrefix) > 8

\* C13: the 12-digit base of the EAN-13 is country prefix + company prefix +
\* brand id + 3-digit sequence, left-padded with zeros when shorter than 12
\* digits and cut to its first 12 digits when longer.
C13_BaseKeepsPrefix ==
    \A r \in StoredRows :
        LET cat == r.CountryPrefix \o r.CompanyPrefix \o r.BrandID \o r.SPCode
            e   == build_ean13(r.CountryPrefix, r.CompanyPrefix, r.BrandID, r.SPCode)
        IN  SubSeq(e, 1, 12) =
                IF Len(cat) <= 12
                THEN [i \in 1..12 |-> IF i <= 12 - Len(cat) THEN "0"
                                      ELSE cat[i - (12 - Len(cat))]]
                ELSE SubSeq(cat, 1, 12)

\* brand, size, finish and sequence of a row
Tuple(r) == <<r.BrandCode, r.SizeCode, r.MattPolished, int(r.SPCode)>>

Larger(a, b) == IF a >= b THEN a ELSE b

Smaller(a, b) == IF a <= b THEN a ELSE b

\* C15: of a readable image of width w and height h, resize_and_save writes,
\* when max(w,h) > 2000, a PNG whose longest side is 2000 and whose other
\* side is the shorter side scaled by 2000/max(w,h) and rounded, and
\* otherwise an unchanged copy with the source's extension; for every w, h >= 1.
C15_Resize ==
    \A p \in DOMAIN files : \A src \in ImageSrcs :
        (files[p].of = src.name /\ src.opens /\ src.encodes /\ src.copies)
        => LET f == files[p]
               m == Larger(src.w, src.h)
           IN  IF m > 2000
               THEN /\ f.fmt = ".png"
                    /\ p[Len(p)] = ".png"
                    /\ Larger(f.w, f.h) = 2000
                    /\ (f.w >= f.h) = (src.w >= src.h)
                    /\ 2 * (Smaller(f.w, f.h) * m - Smaller(src.w, src.h) * 2000) <= m
                    /\ 2 * (Smaller(src.w, src.h) * 2000 - Smaller(f.w, f.h) * m) <= m
               ELSE /\ f.fmt = src.ext
                    /\ p[Len(p)] = src.ext
                    /\ f.w = src.w
                    /\ f.h = src.h

\* the face images listed in a row, in order
FacePaths(r) ==
    SelectSeq(IF r.ImagePaths = <<>> THEN <<>> ELSE split(r.ImagePaths, ";"),
              LAMBDA q : "_face" \in Range(q))

\* resize_and_save writes the PNG of a source
Resizes(src) ==
    /\ src.opens
    /\ src.encodes
    /\ Larger(src.w, src.h) > 2000
    /\ 2 * Smaller(src.w, src.h) * 2000 > Larger(src.w, src.h)

\* C16: when opening, resizing or encoding fails resize_and_save falls back
\* to a plain copy of the source and returns its path; only when the copy
\* fails too it returns no path, and save_product then leaves that image out
\* of ImagePaths and saves the row with the paths of the other images.
C16_Fallback ==
    [][\A form \in ImageForms, selected_images \in ImageLists :
          (SaveProduct(form, selected_images) /\ msg' = <<"Saved">>)
          => LET row   == products_xlsx'[Len(products_xlsx')]
                 kept  == SelectSeq(selected_images,
                                    LAMBDA src : src.exists /\ (Resizes(src) \/ src.copies))
                 faces == FacePaths(row)
             IN  /\ Len(products_xlsx') = Len(products_xlsx) + 1
                 /\ Len(faces) = Len(kept)
                 /\ \A i \in DOMAIN kept :
                       /\ faces[i] \in DOMAIN files'
                       /\ files'[faces[i]].of = kept[i].name
                       /\ ~Resizes(kept[i])
                          => /\ files'[faces[i]].fmt = kept[i].ext
                             /\ files'[faces[i]].w = kept[i].w
                             /\ files'[faces[i]].h = kept[i].h
                 /\ \A src \in Range(selected_images) :
                       ~(Resizes(src) \/ src.copies)
                       => \A q \in DOMAIN files' : files'[q].of # src.name]_vars

C16_Witness ==
    /\ msg = <<"Saved">>
    /\ \E q \in DOMAIN files :
          /\ files[q].of = <<"small">>
          /\ SubSeq(q, Len(q) - 2, Len(q) - 1) = <<"0", "2">>
    /\ \A q \in DOMAIN files : files[q].of # <<"locked">>

\* the paths listed in the ImagePaths cell of a row
ListedPaths(r) == IF r.ImagePaths = <<>> THEN <<>> ELSE split(r.ImagePaths, ";")

\* a list without the first occurrence of x
WithoutFirst(list, x) ==
    LET k == CHOOSE i \in DOMAIN list : list[i] = x /\ \A j \in 1..(i - 1) : list[j] # x
    IN  SubSeq(list, 1, k - 1) \o SubSeq(list, k + 1, Len(list))

\* the SKUs and the paths delete_image_from_product is called with: the SKUs
\* of both files and an unknown one, the paths listed in a row or on disk
KnownSKUs == {r.SKU : r \in StoredRows} \cup {<<"X">>}

KnownPaths == DOMAIN files \cup UNION {Range(ListedPaths(r)) : r \in StoredRows}

C17_Notes ==
    [][/\ \A k \in DOMAIN dialogs, note_var \in NoteTexts :
             DialogOk(k, note_var)
             => LET n == strip(note_var)
                IN  /\ deleted_xlsx' = deleted_xlsx
                    /\ products_xlsx' =
                         IF n = <<>> THEN products_xlsx
                         ELSE [i \in DOMAIN products_xlsx |->
                                 IF products_xlsx[i].SKU # dialogs[k].sku
                                 THEN products_xlsx[i]
                                 ELSE [products_xlsx[i] EXCEPT !.Notes =
                                         IF @ = <<>> THEN n ELSE @ \o <<";", " ">> \o n]]
       /\ \A k \in DOMAIN dialogs :
             DialogCancel(k) => UNCHANGED <<products_xlsx, deleted_xlsx>>]_vars

\* a batch code of the announced form: LOT, a year of two or four digits and
\* a serial number of three digits
Announced(batch) ==
    /\ Len(batch) \in {8, 10}
    /\ SubSeq(batch, 1, 3) = <<"L", "O", "T">>
    /\ \A i \in 4..Len(batch) : batch[i] \in Range(DigitChars)

\* C19: validate_inputs accepts a batch code exactly when it is empty or of
\* the form its message announces, LOT with a year and a serial number, the
\* message's example LOT2026001 included: a save of an otherwise valid form
\* is refused by validation exactly when its trimmed batch code is neither.
C19_Batch ==
    [][\A form \in BatchForms :
          (SaveProduct(form, <<>>) /\ ~FailsValidation([form EXCEPT !.batch = <<>>]))
          => LET batch == strip(form.batch)
             IN  msg' = <<"Validation">> <=> ~(batch = <<>> \/ Announced(batch))]_vars

\* C20: the derived fields stay consistent: in every state reached by saves,
\* added images, added notes, deleted images and deleted products, every row
\* of the active set has an SPCode of three digits in 001..999, its SKU is
\* build_sku(BrandCode, SizeCode, MattPolished, SPCode) and its EAN13 is
\* build_ean13(CountryPrefix, CompanyPrefix, BrandID, SPCode).
C20_Derived ==
    \A r \in Range(products_xlsx) :
        /\ Len(r.SPCode) = 3
        /\ \A i \in 1..3 : r.SPCode[i] \in Range(DigitChars)
        /\ r.SPCode # <<"0", "0", "0">>
        /\ r.SKU = build_sku(r.BrandCode, r.SizeCode, r.MattPolished, r.SPCode)
        /\ r.EAN13 = build_ean13(r.CountryPrefix, r.CompanyPrefix, r.BrandID, r.SPCode)

C20_Witness ==
    /\ deleted_xlsx # <<>>
    /\ \E r \in Range(products_xlsx) :
          /\ Separators(r.Notes) >= 1
          /\ Len(FacePaths(r)) >= 1

\* C21: a freshly allocated sequence number is usable: when next_spcode_for
\* (brand, size) returns s <= 999 and a product of that brand and size with
\* the sequence s, in either finish, is saved with no other operation on the
\* store in between, the save is not rejected as a duplicate SKU.
C21_FreshUsable ==
    [][\A form \in EntryForms :
          LET s == next_spcode_for(form.brand, SizeCodeOf(form.size_label))
          IN  (/\ SaveProduct(form, <<>>)
               /\ form.spcode = s
               /\ Len(s) = 3)
              => msg' # <<"Duplicate">>]_vars

C21_Witness ==
    /\ msg = <<"Saved">>
    /\ Len(products_xlsx) = 2
    /\ products_xlsx[1].BrandCode = products_xlsx[2].BrandCode
    /\ products_xlsx[1].SizeCode = products_xlsx[2].SizeCode
    /\ products_xlsx[1].MattPolished # products_xlsx[2].MattPolished
    /\ spcode_var = <<>>
    /\ DigitsValue(products_xlsx[2].SPCode) = DigitsValue(products_xlsx[1].SPCode) + 1

\* C22: the EAN-13 of a saved product is a function of country prefix,
\* company prefix, brand and sequence alone: two saved products that agree
\* on these four carry the same EAN-13, whatever their size and finish; the
\* active set can so hold two distinct SKUs with one EAN-13 (the witness).
C22_SharedEAN13 ==
    \A r1, r2 \in StoredRows :
        (/\ r1.CountryPrefix = r2.CountryPrefix
         /\ r1.CompanyPrefix = r2.CompanyPrefix
         /\ r1.BrandCode = r2.BrandCode
         /\ r1.SPCode = r2.SPCode)
        => r1.EAN13 = r2.EAN13

C22_Witness ==
    \E i, j \in DOMAIN products_xlsx :
        /\ products_xlsx[i].SKU # products_xlsx[j].SKU
        /\ products_xlsx[i].SizeCode # products_xlsx[j].SizeCode
        /\ products_xlsx[i].MattPolished # products_xlsx[j].MattPolished
        /\ products_xlsx[i].EAN13 = products_xlsx[j].EAN13

\* a picked file that add_images stores
Stores(src) == src.exists /\ (Resizes(src) \/ src.copies)

\* C23: add_images never overwrites a stored image: after any earlier
\* add-images and delete-image operations on the product, every image added
\* gets a file name that no listed image has, so the files of the listed
\* images stay as they are, every listed path keeps its position, and the
\* list grows by one path for each file stored.
C23_NoOverwrite ==
    [][\A picked \in FaceLists :
          (AddImagesUpTo(picked, MaxFaceIndex) /\ msg' = <<"Added images">>)
          => \A i \in DOMAIN products_xlsx :
                products_xlsx[i].SKU = selection
                => LET old == ListedPaths(products_xlsx[i])
                       new == ListedPaths(products_xlsx'[i])
                       n   == Cardinality({k \in DOMAIN picked : Stores(picked[k])})
                   IN  /\ Len(new) = Len(old) + n
                       /\ SubSeq(new, 1, Len(old)) = old
                       /\ \A q \in Range(old) :
                             q \in DOMAIN files => q \in DOMAIN files' /\ files'[q] = files[q]]_vars

\* the SKUs of a sheet
SKUs(sheet) == {sheet[i].SKU : i \in DOMAIN sheet}

\* C24: delete_product writes the deleted set before it rewrites the active
\* set, so wherever a delete of a product stands or stops, the product's row
\* is in at least one of the two sets: stopped before the first write it is
\* in the active set and nothing is written, stopped between the two writes
\* it is in both, at the end it is in the deleted set only; never in neither.
C24_DeletedFirst ==
    [][\A n \in 0..2 :
          (DeleteProductUpTo(n) /\ selection \in SKUs(products_xlsx))
          => /\ selection \in SKUs(products_xlsx') \cup SKUs(deleted_xlsx')
             /\ n = 0 => UNCHANGED <<products_xlsx, deleted_xlsx>>
             /\ n = 1 => /\ products_xlsx' = products_xlsx
                         /\ \E i \in DOMAIN products_xlsx :
                               /\ products_xlsx[i].SKU = selection
                               /\ deleted_xlsx' = Append(deleted_xlsx, products_xlsx[i])
             /\ n = 2 => /\ selection \notin SKUs(products_xlsx')
                         /\ selection \in SKUs(deleted_xlsx')]_vars

C24_Witness ==
    /\ msg # <<"Deleted">>
    /\ \E r \in Range(products_xlsx) : r \in Range(deleted_xlsx)

===========================================================================
